---- MODULE Spec2Model ----
(***************************************************************************)
(* Model of simulate_queue (tema7-queue-simulator/queue_simulator.py): the *)
(* discrete-event loop of an M/M/c queue with one FCFS queue.              *)
(*                                                                         *)
(* Simulated times and drawn durations are naturals.  Every call of        *)
(* exp_time draws a non-negative duration from a bounded set; 0 is         *)
(* included because random.expovariate returns 0.0 when the underlying     *)
(* uniform draw is 0.0.                                                    *)
(* One step of the model is one event (ARRIVAL or COMPLETION), one         *)
(* iteration of the assignment loop, or the exit of a loop: the points at  *)
(* which viz_print observes the state.                                     *)
(***************************************************************************)
EXTENDS Integers, Sequences, FiniteSets, TLC

\* ---------------------------------------------------------------- bounds
MaxReportClients == 53
MaxSample == 4
MaxValue == 4
MaxClients == 3
MaxCounters == 3
MaxInterArrival == 1
MaxService == 2

\* the values exp_time may return for the arrival rate and for the service rate
ArrivalDurations == 0..MaxInterArrival
ServiceDurations == 0..MaxService
ClientsDomain == 0..MaxClients
CountersDomain == 0..MaxCounters
Rates == {-1, 0, 1}

VARIABLES
    clients, counters, arrival_rate, service_rate,  \* parameters of the call
    pc,               \* position in simulate_queue
    err,              \* message of the ValueError / IndexError raised, or "none"
    t, next_arrival,
    queue,            \* sequence of client ids (the Client objects of `queue`)
    busy_heap,        \* heapq array of <<finish_time, server_index>>
    free_servers,     \* list of free server indices
    served, client_id,
    waits, max_queue, queue_max_times, busy_time_sum,
    cust,             \* the Client objects: id -> [arrival, service_start, service_end]
    draws,            \* the calls of exp_time so far, in order: "arrival" / "service"
    event,            \* branch taken by the last iteration of the main loop
    assign_log,       \* history: <<client id, server index>> per assignment, in order
    freed_log,        \* history: the server index appended by each COMPLETION, in order
    result,           \* the SimResult returned, or NoResult
    viz,              \* parameter viz of the call
    viz_due,          \* a call of viz_print has been reached and has not returned
    viz_out,          \* the line the last call of viz_print printed, or NoLine
    scenarios,        \* compare_scenarios: the rest of counters_list
    results,          \* compare_scenarios: <<c, SimResult>> per scenario run so far
    pct_values, pct_p, pct_out,   \* a call of pct: arguments and value returned
    report_res, report_lines      \* write_detailed_report: argument and file written

\* the state of one call of simulate_queue; `draws` is the consumption of the
\* module-level generator of `random`, which outlives the call
run_state == <<clients, counters, arrival_rate, service_rate, pc, err, t, next_arrival,
               queue, busy_heap, free_servers, served, client_id, waits, max_queue,
               queue_max_times, busy_time_sum, cust, draws, event, assign_log, freed_log, result>>

\* what simulate_queue itself never writes
outside == <<viz, viz_out, scenarios, results, pct_values, pct_p, pct_out,
             report_res, report_lines>>

vars == <<run_state, viz_due, outside>>

params == <<clients, counters, arrival_rate, service_rate>>

NoResult == [served |-> -1]

\* ---------------------------------------------------------------- heapq
\* Python compares the (finish_time, server_index) tuples lexicographically.
TupleLessTimeOnly(a, b) == a[1] < b[1]

TupleLess(a, b) == a[1] < b[1] \/ (a[1] = b[1] /\ a[2] < b[2])

\* heapq._siftdown(heap, startpos, pos) with newitem = heap[pos]; positions are 0-based.
RECURSIVE SiftDown(_, _, _, _)
SiftDown(h, startpos, pos, newitem) ==
    IF pos > startpos
    THEN LET parentpos == (pos - 1) \div 2
             parent == h[parentpos + 1]
         IN  IF TupleLess(newitem, parent)
             THEN SiftDown([h EXCEPT ![pos + 1] = parent], startpos, parentpos, newitem)
             ELSE [h EXCEPT ![pos + 1] = newitem]
    ELSE [h EXCEPT ![pos + 1] = newitem]

\* the loop of heapq._siftup: bubble the smaller child up until a leaf is hit;
\* yields <<heap, pos>>.
RECURSIVE SiftUpLoop(_, _)
SiftUpLoop(h, pos) ==
    LET endpos == Len(h)
        childpos == 2 * pos + 1
        rightpos == childpos + 1
        pick == IF rightpos < endpos /\ ~TupleLess(h[childpos + 1], h[rightpos + 1])
                THEN rightpos ELSE childpos
    IN  IF childpos < endpos
        THEN SiftUpLoop([h EXCEPT ![pos + 1] = h[pick + 1]], pick)
        ELSE <<h, pos>>

SiftUp(h, pos) ==
    LET newitem == h[pos + 1]
        r == SiftUpLoop(h, pos)
    IN  SiftDown(r[1], pos, r[2], newitem)

HeapPush(h, item) == SiftDown(Append(h, item), 0, Len(h), item)

\* heapq.heappop on a non-empty heap: <<returned item, heap afterwards>>.
HeapPopPeek(h) == <<h[1], h>>

HeapPopLast(h) == <<h[Len(h)], SubSeq(h, 1, Len(h) - 1)>>

HeapPop(h) ==
    LET lastelt == h[Len(h)]
        rest == SubSeq(h, 1, Len(h) - 1)
    IN  IF rest # <<>>
        THEN <<h[1], SiftUp([rest EXCEPT ![1] = lastelt], 0)>>
        ELSE <<lastelt, rest>>

\* ---------------------------------------------------------------- initial state
\* the locals of simulate_queue at entry
RunInit ==
    /\ err = "none"
    /\ t = 0
    /\ next_arrival = 0
    /\ queue = <<>>
    /\ busy_heap = <<>>
    /\ free_servers = <<>>
    /\ served = 0
    /\ client_id = 0
    /\ waits = <<>>
    /\ max_queue = 0
    /\ queue_max_times = <<>>
    /\ busy_time_sum = 0
    /\ cust = <<>>
    /\ draws = <<>>
    /\ event = "none"
    /\ assign_log = <<>>
    /\ freed_log = <<>>
    /\ result = NoResult

\* nothing printed
NoLine == [now |-> -1]

VizIdle == viz_due = FALSE /\ viz_out = NoLine

CompareIdle == scenarios = <<>> /\ results = <<>>

PctIdle == pct_values = <<>> /\ pct_p = 0 /\ pct_out = -1

ReportIdle == report_res = NoResult /\ report_lines = <<>>

\* one call of simulate_queue with viz left at its default
Init ==
    /\ clients \in ClientsDomain
    /\ counters \in CountersDomain
    /\ arrival_rate \in Rates
    /\ service_rate \in Rates
    /\ viz = FALSE
    /\ pc = "start"
    /\ RunInit
    /\ VizIdle /\ CompareIdle /\ PctIdle /\ ReportIdle

\* ---------------------------------------------------------------- exp_time
\* exp_time raises ValueError("Rate must be > 0") instead of drawing
ExpTimeFails(rate) == rate <= 0

\* the variate stream after one call of exp_time: random.expovariate is called
\* once per call, `kind` records which duration the variate was drawn for
ExpTimeDrawsTwice(stream, kind) == Append(Append(stream, kind), kind)

ExpTimeDraws(stream, kind) == Append(stream, kind)

\* ---------------------------------------------------------------- simulate_queue
\* the ValueError raised by the parameter checks, "none" when they all pass
ParamErrorRatesNegativeOnly ==
    IF counters < 1 THEN "counters must be >= 1"
    ELSE IF clients < 1 THEN "clients must be >= 1"
    ELSE IF arrival_rate < 0 \/ service_rate < 0 THEN "rates must be > 0"
    ELSE "none"

ParamError ==
    IF counters < 1 THEN "counters must be >= 1"
    ELSE IF clients < 1 THEN "clients must be >= 1"
    ELSE IF arrival_rate <= 0 \/ service_rate <= 0 THEN "rates must be > 0"
    ELSE "none"

\* list(range(counters))
RangeListFromOne(n) == [i \in 1..(n - 1) |-> i]

RangeList(n) == [i \in 1..n |-> i - 1]

\* parameter checks, then the state set up before the main loop
Validate ==
    /\ pc = "start"
    /\ IF ParamError # "none"
       THEN /\ pc' = "raised"
            /\ err' = ParamError
            /\ UNCHANGED <<next_arrival, free_servers, draws>>
       ELSE IF ExpTimeFails(arrival_rate)
       THEN /\ pc' = "raised"
            /\ err' = "Rate must be > 0"
            /\ UNCHANGED <<next_arrival, free_servers, draws>>
       ELSE /\ pc' = "loop"
            /\ \E d \in ArrivalDurations : next_arrival' = d
            /\ draws' = ExpTimeDraws(draws, "arrival")
            /\ free_servers' = RangeList(counters)
            /\ UNCHANGED err
    /\ UNCHANGED <<params, outside, viz_due, t, queue, busy_heap, served, client_id, waits,
                   max_queue, queue_max_times, busy_time_sum, cust, event, assign_log, freed_log,
                   result>>

\* the condition of the main loop, `while served < clients`
MainLoopCondOffByOne == served <= clients

MainLoopCondExitsEarly == served < clients - 1

MainLoopCond == served < clients

\* next_arrival <= next_completion, where next_completion is
\* busy_heap[0][0] if busy_heap else float("inf")
ArrivalBeforeCompletionStrict == busy_heap # <<>> => next_arrival < busy_heap[1][1]

ArrivalBeforeCompletionReversed == busy_heap # <<>> => next_arrival >= busy_heap[1][1]

ArrivalBeforeCompletion == busy_heap # <<>> => next_arrival <= busy_heap[1][1]

\* the condition of the main loop's `if`
ArrivalIsNextUnbounded == ArrivalBeforeCompletion

ArrivalIsNextOneShort == ArrivalBeforeCompletion /\ client_id < clients - 1

ArrivalIsNext == ArrivalBeforeCompletion /\ client_id < clients

\* `if len(queue) > max_queue`, evaluated after the append
IsNewPeakOfOldLength(qlen) == qlen - 1 > max_queue

IsNewPeakOrEqual(qlen) == qlen >= max_queue

IsNewPeak(qlen) == qlen > max_queue

Arrival ==
    /\ pc = "loop"
    /\ ~viz_due
    /\ MainLoopCond
    /\ ArrivalIsNext
    /\ t' = next_arrival
    /\ client_id' = client_id + 1
    /\ cust' = Append(cust, [arrival |-> next_arrival, service_start |-> 0, service_end |-> 0])
    /\ queue' = Append(queue, client_id + 1)
    /\ IF IsNewPeak(Len(queue) + 1)
       THEN /\ max_queue' = Len(queue) + 1
            /\ queue_max_times' = Append(queue_max_times, <<next_arrival, Len(queue) + 1>>)
       ELSE UNCHANGED <<max_queue, queue_max_times>>
    /\ event' = "ARRIVAL"
    /\ viz_due' = viz
    /\ IF ExpTimeFails(arrival_rate)
       THEN /\ pc' = "raised"
            /\ err' = "Rate must be > 0"
            /\ UNCHANGED <<next_arrival, draws>>
       ELSE /\ \E d \in ArrivalDurations : next_arrival' = next_arrival + d
            /\ draws' = ExpTimeDraws(draws, "arrival")
            /\ pc' = "assign"
            /\ UNCHANGED err
    /\ UNCHANGED <<params, outside, busy_heap, free_servers, served, waits, busy_time_sum,
                   assign_log, freed_log, result>>

Completion ==
    /\ pc = "loop"
    /\ ~viz_due
    /\ MainLoopCond
    /\ ~ArrivalIsNext
    /\ IF busy_heap = <<>>
       THEN \* heappop of an empty list raises IndexError
            /\ pc' = "crashed"
            /\ err' = "index out of range"
            /\ UNCHANGED <<t, busy_heap, served, free_servers, event, viz_due,
                            freed_log>>
       ELSE /\ t' = HeapPop(busy_heap)[1][1]
            /\ busy_heap' = HeapPop(busy_heap)[2]
            /\ served' = served + 1
            /\ free_servers' = Append(free_servers, HeapPop(busy_heap)[1][2])
            /\ freed_log' = Append(freed_log, HeapPop(busy_heap)[1][2])
            /\ event' = "COMPLETION"
            /\ viz_due' = viz
            /\ pc' = "assign"
            /\ UNCHANGED err
    /\ UNCHANGED <<params, outside, next_arrival, queue, client_id, waits, max_queue,
                   queue_max_times, busy_time_sum, cust, draws, assign_log, result>>

\* free_servers.pop(): <<server taken, list afterwards>>
PopServerFront(fs) == <<Head(fs), Tail(fs)>>

PopServerKeep(fs) == <<fs[Len(fs)], fs>>

PopServer(fs) == <<fs[Len(fs)], SubSeq(fs, 1, Len(fs) - 1)>>

\* queue.pop(0): <<client taken, queue afterwards>>
PopFrontKeep(q) == <<Head(q), q>>

PopBack(q) == <<q[Len(q)], SubSeq(q, 1, Len(q) - 1)>>

PopFront(q) == <<Head(q), Tail(q)>>

\* the condition of `while free_servers and queue`
AssignLoopCondLeavesOne == free_servers # <<>> /\ Len(queue) > 1

AssignLoopCond == free_servers # <<>> /\ queue # <<>>

\* one iteration of `while free_servers and queue`
Assign ==
    /\ pc = "assign"
    /\ ~viz_due
    /\ AssignLoopCond
    /\ LET server_idx == PopServer(free_servers)[1]
           c == PopFront(queue)[1]
       IN  /\ free_servers' = PopServer(free_servers)[2]
           /\ queue' = PopFront(queue)[2]
           /\ IF ExpTimeFails(service_rate)
              THEN /\ pc' = "raised"
                   /\ err' = "Rate must be > 0"
                   /\ cust' = [cust EXCEPT ![c].service_start = t]
                   /\ UNCHANGED <<busy_time_sum, waits, busy_heap, assign_log, draws,
                                   viz_due>>
              ELSE /\ \E service_time \in ServiceDurations :
                        /\ cust' = [cust EXCEPT ![c].service_start = t,
                                                ![c].service_end = t + service_time]
                        /\ busy_time_sum' = busy_time_sum + service_time
                        /\ busy_heap' = HeapPush(busy_heap, <<t + service_time, server_idx>>)
                   /\ waits' = Append(waits, t - cust[c].arrival)
                   /\ assign_log' = Append(assign_log, <<c, server_idx>>)
                   /\ draws' = ExpTimeDraws(draws, "service")
                   /\ viz_due' = viz
                   /\ UNCHANGED <<pc, err>>
    /\ UNCHANGED <<params, outside, t, next_arrival, served, client_id, max_queue,
                   queue_max_times, event, freed_log, result>>

\* the assignment loop's condition is false: back to the main loop's test
EndAssign ==
    /\ pc = "assign"
    /\ ~viz_due
    /\ ~AssignLoopCond
    /\ pc' = "loop"
    /\ UNCHANGED <<params, outside, viz_due, err, t, next_arrival, queue, busy_heap, free_servers, served,
                   client_id, waits, max_queue, queue_max_times, busy_time_sum, cust,
                   draws, event, assign_log, freed_log, result>>

\* sum of a list of numbers
RECURSIVE SumSeq(_)
SumSeq(xs) == IF xs = <<>> THEN 0 ELSE Head(xs) + SumSeq(Tail(xs))

\* statistics.mean(waits) if waits else 0.0, as the fraction <<numerator, denominator>>
AvgWait(ws) == IF ws # <<>> THEN <<SumSeq(ws), Len(ws)>> ELSE <<0, 1>>

\* (busy_time_sum / (counters * total_time)) if total_time > 0 else 0.0,
\* as the fraction <<numerator, denominator>>
UtilizationOfOneServer(busy, c, total_time) ==
    IF total_time > 0 THEN <<busy, total_time>> ELSE <<0, 1>>

Utilization(busy, c, total_time) ==
    IF total_time > 0 THEN <<busy, c * total_time>> ELSE <<0, 1>>

\* the main loop's condition is false: build and return the SimResult
Finish ==
    /\ pc = "loop"
    /\ ~viz_due
    /\ ~MainLoopCond
    /\ pc' = "done"
    /\ result' = [counters |-> counters, clients |-> clients,
                  arrival_rate |-> arrival_rate, service_rate |-> service_rate,
                  total_time |-> t, avg_wait |-> AvgWait(waits),
                  max_queue |-> max_queue, served |-> served,
                  utilization |-> Utilization(busy_time_sum, counters, t),
                  waits |-> waits, queue_max_times |-> queue_max_times]
    /\ UNCHANGED <<params, outside, viz_due, err, t, next_arrival, queue, busy_heap, free_servers, served,
                   client_id, waits, max_queue, queue_max_times, busy_time_sum, cust,
                   draws, event, assign_log, freed_log>>

Next == Validate \/ Arrival \/ Completion \/ Assign \/ EndAssign \/ Finish

Spec == Init /\ [][Next]_vars

\* The loop is sequential code that runs to completion: a step that can be taken is taken.
LiveSpec == Init /\ [][Next]_vars /\ WF_vars(Next)

\* ---------------------------------------------------------------- viz_print
\* width at which the bars of a printed line are cut
BarWidth == 40

Min(a, b) == IF a <= b THEN a ELSE b

\* the line printed: t, queue length and its bar, busy servers and their bar
VizLine == [now |-> t, qlen |-> Len(queue), bar_q |-> Min(Len(queue), BarWidth),
            busy |-> Len(busy_heap), bar_b |-> Min(Len(busy_heap), BarWidth)]

\* a call of simulate_queue with viz=True
VizInit ==
    /\ clients \in ClientsDomain
    /\ counters \in CountersDomain
    /\ arrival_rate \in Rates
    /\ service_rate \in Rates
    /\ viz = TRUE
    /\ pc = "start"
    /\ RunInit
    /\ VizIdle /\ CompareIdle /\ PctIdle /\ ReportIdle

\* a variant of viz_print that jitters its output with a variate of its own
VizPrintDrawsVariate ==
    /\ viz_due
    /\ viz_due' = FALSE
    /\ \E within_duration \in BOOLEAN :
          viz_out' = IF within_duration THEN VizLine ELSE NoLine
    /\ draws' = Append(draws, "viz")
    /\ UNCHANGED <<params, pc, err, t, next_arrival, queue, busy_heap, free_servers,
                   served, client_id, waits, max_queue, queue_max_times, busy_time_sum,
                   cust, event, assign_log, freed_log, result, viz, scenarios, results,
                   pct_values, pct_p, pct_out, report_res, report_lines>>

\* viz_print(t) with viz set: it returns without printing once the wall clock
\* is more than viz_duration past viz_start_wall (time.time() is an input of
\* the environment), and prints the line otherwise.  The call made in the
\* ARRIVAL branch precedes the draw of the next inter-arrival time, which
\* changes nothing the line shows.
VizPrint ==
    /\ viz_due
    /\ viz_due' = FALSE
    /\ \E within_duration \in BOOLEAN :
          viz_out' = IF within_duration THEN VizLine ELSE NoLine
    /\ UNCHANGED <<params, pc, err, t, next_arrival, queue, busy_heap, free_servers,
                   served, client_id, waits, max_queue, queue_max_times, busy_time_sum,
                   cust, draws, event, assign_log, freed_log, result, viz, scenarios, results,
                   pct_values, pct_p, pct_out, report_res, report_lines>>

VizNext == Next \/ VizPrint

VizSpec == VizInit /\ [][VizNext]_vars

\* ---------------------------------------------------------------- compare_scenarios
\* counters_list: one or two server counts
CountersLists == {<<a>> : a \in CountersDomain} \cup (CountersDomain \X CountersDomain)

\* compare_scenarios is entered with the first scenario about to run; the
\* generator of `random` has been seeded once, by main
CompareInit ==
    /\ clients \in ClientsDomain
    /\ arrival_rate \in Rates
    /\ service_rate \in Rates
    /\ \E cl \in CountersLists : counters = Head(cl) /\ scenarios = Tail(cl)
    /\ results = <<>>
    /\ viz = FALSE
    /\ pc = "start"
    /\ RunInit
    /\ VizIdle /\ PctIdle /\ ReportIdle

\* results[c] = simulate_queue(...) has returned: keep the result and call
\* simulate_queue for the next c; the new call has fresh locals, the generator
\* of `random` is where the previous call left it
NextScenario ==
    /\ pc = "done"
    /\ results' = Append(results, <<counters, result>>)
    /\ IF scenarios = <<>>
       THEN /\ pc' = "compared"
            /\ UNCHANGED <<counters, scenarios, t, next_arrival, queue, busy_heap,
                           free_servers, served, client_id, waits, max_queue,
                           queue_max_times, busy_time_sum, cust, event, assign_log, freed_log,
                           result>>
       ELSE /\ pc' = "start"
            /\ counters' = Head(scenarios)
            /\ scenarios' = Tail(scenarios)
            /\ t' = 0
            /\ next_arrival' = 0
            /\ queue' = <<>>
            /\ busy_heap' = <<>>
            /\ free_servers' = <<>>
            /\ served' = 0
            /\ client_id' = 0
            /\ waits' = <<>>
            /\ max_queue' = 0
            /\ queue_max_times' = <<>>
            /\ busy_time_sum' = 0
            /\ cust' = <<>>
            /\ event' = "none"
            /\ assign_log' = <<>>
            /\ freed_log' = <<>>
            /\ result' = NoResult
    /\ UNCHANGED <<clients, arrival_rate, service_rate, err, draws, viz, viz_due, viz_out,
                   pct_values, pct_p, pct_out, report_res, report_lines>>

CompareNext == Next \/ NextScenario

CompareSpec == CompareInit /\ [][CompareNext]_vars

\* ---------------------------------------------------------------- pct
\* sorted(values)
RECURSIVE InsertSorted(_, _)
InsertSorted(x, xs) ==
    IF xs = <<>> THEN <<x>>
    ELSE IF x <= Head(xs) THEN <<x>> \o xs
    ELSE <<Head(xs)>> \o InsertSorted(x, Tail(xs))

SortedUnsorted(xs) == xs

RECURSIVE Sorted(_)
Sorted(xs) == IF xs = <<>> THEN <<>> ELSE InsertSorted(Head(xs), Sorted(Tail(xs)))

\* pct(values, p), in hundredths: k = (p / 100) * (len(s) - 1) is the fraction
\* p * (len(s) - 1) / 100, so the value returned is a whole number of hundredths
Pct(values, p) ==
    IF values = <<>> THEN 0
    ELSE LET s == Sorted(values)
             k100 == p * (Len(s) - 1)
             lo == k100 \div 100
             hi == IF k100 % 100 = 0 THEN lo ELSE lo + 1
         IN  IF lo = hi THEN 100 * s[lo + 1]
             ELSE 100 * s[lo + 1] + (s[hi + 1] - s[lo + 1]) * (k100 - 100 * lo)

\* the samples and percentiles pct is called with
Samples == UNION {[1..n -> 0..MaxValue] : n \in 0..MaxSample}

Percentiles == {0, 1, 25, 50, 75, 90, 95, 99, 100}

PctInit ==
    /\ pct_values \in Samples
    /\ pct_p \in Percentiles
    /\ pct_out = -1
    /\ pc = "pct_call"
    /\ clients = 0 /\ counters = 0 /\ arrival_rate = 0 /\ service_rate = 0
    /\ viz = FALSE
    /\ RunInit
    /\ VizIdle /\ CompareIdle /\ ReportIdle

PctCall ==
    /\ pc = "pct_call"
    /\ pct_out' = Pct(pct_values, pct_p)
    /\ pc' = "pct_done"
    /\ UNCHANGED <<params, err, t, next_arrival, queue, busy_heap, free_servers, served,
                   client_id, waits, max_queue, queue_max_times, busy_time_sum, cust,
                   draws, event, assign_log, freed_log, result, viz, viz_due, viz_out, scenarios,
                   results, pct_values, pct_p, report_res, report_lines>>

PctSpec == PctInit /\ [][PctCall]_vars

\* ---------------------------------------------------------------- write_detailed_report
\* the slices [:50]
ReportLimit == 50

ReportPrefixWhole(xs) == xs

ReportPrefix(xs) == SubSeq(xs, 1, Min(ReportLimit, Len(xs)))

\* The SimResult of a run with one server and unit service times in which the
\* first `together` of n customers arrive at time 0 and the others arrive one
\* by one after the queue has emptied: customer k of the first group waits
\* k - 1, and the queue peaks one by one at time 0.
ReportResult(n, together) ==
    [clients |-> n, served |-> n,
     waits |-> [k \in 1..n |-> IF k <= together THEN k - 1 ELSE 0],
     queue_max_times |-> [k \in 1..(IF together >= 2 THEN together - 1 ELSE 1) |-> <<0, k>>]]

ReportInit ==
    /\ \E n \in 1..MaxReportClients : \E together \in 1..n :
          report_res = ReportResult(n, together)
    /\ report_lines = <<>>
    /\ pc = "report_call"
    /\ clients = 0 /\ counters = 0 /\ arrival_rate = 0 /\ service_rate = 0
    /\ viz = FALSE
    /\ RunInit
    /\ VizIdle /\ CompareIdle /\ PctIdle

\* The file written, one entry per write: the text of format_result, the two
\* headings, a line <<"t", t, "q", q>> per milestone written and a line
\* <<"w", w>> per wait written.  The model's times are whole numbers, which
\* the formats :.2f and :.4f print exactly.
WriteDetailedReport ==
    /\ pc = "report_call"
    /\ report_lines' =
          <<<<"format_result">>, <<"Momente congestie maxima">>>>
          \o [i \in 1..Len(ReportPrefix(report_res.queue_max_times)) |->
                <<"t", ReportPrefix(report_res.queue_max_times)[i][1],
                  "q", ReportPrefix(report_res.queue_max_times)[i][2]>>]
          \o <<<<"Distributie asteptare">>>>
          \o [i \in 1..Len(ReportPrefix(report_res.waits)) |->
                <<"w", ReportPrefix(report_res.waits)[i]>>]
    /\ pc' = "report_done"
    /\ UNCHANGED <<params, err, t, next_arrival, queue, busy_heap, free_servers, served,
                   client_id, waits, max_queue, queue_max_times, busy_time_sum, cust,
                   draws, event, assign_log, freed_log, result, viz, viz_due, viz_out, scenarios,
                   results, pct_values, pct_p, pct_out, report_res>>

ReportSpec == ReportInit /\ [][WriteDetailedReport]_vars

\* ---------------------------------------------------------------- shared vocabulary
ValidParams == clients >= 1 /\ counters >= 1 /\ arrival_rate > 0 /\ service_rate > 0

Running == pc \in {"loop", "assign", "done"}

Range(s) == {s[i] : i \in 1..Len(s)}

\* ---------------------------------------------------------------- claims
\* C1: for valid parameters and any non-negative drawn durations the event
\* loop terminates, and the SimResult returned has served == clients.
C1_TerminatesWithAllServed ==
    (pc = "start" /\ ValidParams) ~> (pc = "done" /\ result.served = clients)

C1_Witness ==
    /\ pc = "done"
    /\ ValidParams
    /\ clients >= 2
    /\ result.served = clients

\* C2: every customer that was assigned a server has wait >= 0 and
\* service_end >= service_start >= arrival.
C2_TimingsOrdered ==
    \A k \in 1..Len(assign_log) :
        LET c == cust[assign_log[k][1]]
        IN  /\ waits[k] >= 0
            /\ c.service_start - c.arrival >= 0
            /\ c.service_end >= c.service_start
            /\ c.service_start >= c.arrival

\* a customer that waited in the queue and was then served for a positive time
C2_Witness ==
    \E k \in 1..Len(assign_log) :
        LET c == cust[assign_log[k][1]]
        IN  /\ c.service_start > c.arrival
            /\ c.service_end > c.service_start
            /\ waits[k] > 0

\* C3: busy servers + free servers = counters, every server index 0..counters-1
\* is in exactly one of busy_heap and free_servers, and no server has more than
\* one pending completion.
C3_ServersPartitioned ==
    Running =>
        /\ Len(busy_heap) + Len(free_servers) = counters
        /\ \A s \in 0..(counters - 1) :
              Cardinality({i \in 1..Len(busy_heap) : busy_heap[i][2] = s})
                + Cardinality({i \in 1..Len(free_servers) : free_servers[i] = s}) = 1
        /\ \A i \in 1..Len(busy_heap) : busy_heap[i][2] \in 0..(counters - 1)
        /\ \A i \in 1..Len(free_servers) : free_servers[i] \in 0..(counters - 1)

\* some servers busy, some free, after a server has already been recycled
C3_Witness ==
    /\ pc = "assign"
    /\ counters >= 2
    /\ busy_heap # <<>>
    /\ free_servers # <<>>
    /\ served >= 1
    /\ Len(assign_log) > served

\* C4: when the next arrival and the earliest pending completion fall on the
\* same simulated time and fewer than `clients` arrivals have been generated,
\* the ARRIVAL is processed first: the customer is appended to the queue and
\* the peak-queue observation is taken while the completion is still pending.
C4_TieIsArrival ==
    [][ ( /\ pc = "loop"
          /\ served < clients
          /\ busy_heap # <<>>
          /\ next_arrival = busy_heap[1][1]
          /\ client_id < clients )
        => ( /\ event' = "ARRIVAL"
             /\ t' = next_arrival
             /\ client_id' = client_id + 1
             /\ queue' = Append(queue, client_id + 1)
             /\ busy_heap' = busy_heap
             /\ free_servers' = free_servers
             /\ served' = served
             /\ max_queue' = IF Len(queue) + 1 > max_queue
                             THEN Len(queue) + 1 ELSE max_queue
             /\ (Len(queue) + 1 > max_queue
                   => queue_max_times' =
                        Append(queue_max_times, <<next_arrival, Len(queue) + 1>>)) )
      ]_vars

\* the arrival has just been processed at the time of a pending completion,
\* and the queue it joined set a new peak because no server was free yet
C4_Witness ==
    /\ pc = "assign"
    /\ event = "ARRIVAL"
    /\ busy_heap # <<>>
    /\ busy_heap[1][1] = t
    /\ free_servers = <<>>
    /\ Len(queue) >= 2
    /\ max_queue = Len(queue)
    /\ queue_max_times[Len(queue_max_times)] = <<t, Len(queue)>>

\* C5 (as stated): consecutive congestion milestones (t1, q1), (t2, q2) have
\* q1 < q2 and t1 < t2.
C5_MilestonesStrictInBoth ==
    \A i \in 1..(Len(queue_max_times) - 1) :
        /\ queue_max_times[i][2] < queue_max_times[i + 1][2]
        /\ queue_max_times[i][1] < queue_max_times[i + 1][1]

\* C5 (amended): consecutive congestion milestones (t1, q1), (t2, q2) have
\* q1 < q2 and t1 <= t2; two milestones share a time when the arrivals that
\* set them are a zero duration apart.
C5_MilestonesIncreasing ==
    \A i \in 1..(Len(queue_max_times) - 1) :
        /\ queue_max_times[i][2] < queue_max_times[i + 1][2]
        /\ queue_max_times[i][1] <= queue_max_times[i + 1][1]

\* a second peak was set at the very time of the first one
C5_Witness ==
    /\ Len(queue_max_times) >= 2
    /\ queue_max_times[1][2] = 1
    /\ queue_max_times[2][2] = 2
    /\ queue_max_times[1][1] = queue_max_times[2][1]

\* C6: completions are processed in non-decreasing order of completion time,
\* and the pair removed from busy_heap is the least one in (time, server index)
\* order, so of two servers finishing at the same time the lower index goes first.
C6_CompletionsInOrder ==
    [][ served' = served + 1
        => ( /\ busy_heap # <<>>
             /\ t' >= t
             /\ Len(free_servers') = Len(free_servers) + 1
             /\ LET popped == <<t', free_servers'[Len(free_servers')]>>
                IN  /\ popped \in Range(busy_heap)
                    /\ \A i \in 1..Len(busy_heap) :
                          \/ popped[1] < busy_heap[i][1]
                          \/ (popped[1] = busy_heap[i][1] /\ popped[2] <= busy_heap[i][2])
                    /\ Len(busy_heap') = Len(busy_heap) - 1
                    /\ Range(busy_heap') = Range(busy_heap) \ {popped} )
      ]_vars

\* a completion has just freed a server while a higher-indexed server is still
\* pending with the same completion time
C6_Witness ==
    /\ pc = "assign"
    /\ event = "COMPLETION"
    /\ queue = <<>>
    /\ free_servers # <<>>
    /\ busy_heap # <<>>
    /\ busy_heap[1][1] = t
    /\ free_servers[Len(free_servers)] < busy_heap[1][2]

\* C7: customers begin service in arrival order: the k-th assignment is of the
\* k-th arrived customer, service_start is non-decreasing in the arrival
\* sequence number, and waits[k] is the wait of customer k.
C7_FCFS ==
    /\ Len(waits) = Len(assign_log)
    /\ \A k \in 1..Len(assign_log) :
          /\ assign_log[k][1] = k
          /\ waits[k] = cust[k].service_start - cust[k].arrival
    /\ \A i, j \in 1..Len(assign_log) :
          i < j => cust[i].service_start <= cust[j].service_start

\* two customers were queued together and the earlier one has been assigned
C7_Witness ==
    /\ Len(assign_log) >= 2
    /\ Len(queue) >= 1
    /\ max_queue >= 2
    /\ cust[1].service_start < cust[2].service_start

\* C8: the queue holds only customers that have no server assigned; every
\* customer created is either in the queue (once) or assigned (once), never
\* both, so it entered the queue once and left it once.
C8_QueuedOnceAssignedOnce ==
    /\ \A i, j \in 1..Len(queue) : i # j => queue[i] # queue[j]
    /\ \A i, j \in 1..Len(assign_log) : i # j => assign_log[i][1] # assign_log[j][1]
    /\ Range(queue) \cap {assign_log[k][1] : k \in 1..Len(assign_log)} = {}
    /\ Range(queue) \cup {assign_log[k][1] : k \in 1..Len(assign_log)} = 1..client_id
    /\ Len(cust) = client_id

\* customers waiting in the queue after others have left it for a server
C8_Witness ==
    /\ Len(queue) >= 1
    /\ Len(assign_log) >= 2
    /\ served >= 1

\* C9: never more than `clients` customers are created, and once `clients`
\* arrivals have been generated every further event is a COMPLETION, also when
\* the scheduled next_arrival is earlier than the earliest pending completion.
C9_NoExtraArrival ==
    [][ /\ client_id' <= clients'
        /\ (client_id = clients /\ pc = "loop" /\ pc' # "done")
             => (event' = "COMPLETION" /\ served' = served + 1
                 /\ client_id' = client_id /\ queue' = queue /\ draws' = draws)
      ]_vars

\* all arrivals are generated and a completion later than the scheduled
\* next_arrival has just been processed
C9_Witness ==
    /\ pc = "assign"
    /\ event = "COMPLETION"
    /\ client_id = clients
    /\ next_arrival < t

\* C10: with clients < 1, counters < 1, arrival_rate <= 0 or service_rate <= 0
\* simulate_queue raises the parameter error before the loop: nothing is drawn,
\* no event is processed and no SimResult is produced.
C10_InvalidParamsRaiseFirst ==
    ~ValidParams =>
        /\ pc \in {"start", "raised"}
        /\ pc = "raised" => err \in {"counters must be >= 1", "clients must be >= 1",
                                     "rates must be > 0", "Rate must be > 0"}
        /\ draws = <<>>
        /\ event = "none"
        /\ client_id = 0
        /\ t = 0
        /\ result = NoResult

\* the run was refused for a zero service rate alone
C10_Witness ==
    /\ pc = "raised"
    /\ clients >= 1
    /\ counters >= 1
    /\ arrival_rate > 0
    /\ service_rate = 0
    /\ err = "rates must be > 0"

\* the service durations drawn, read back from the Client records
ServiceDurationsDrawn == [k \in 1..Len(assign_log) |->
                            cust[assign_log[k][1]].service_end
                              - cust[assign_log[k][1]].service_start]

\* C11: in the SimResult, when total_time > 0 the utilization is within [0, 1]
\* (the service durations drawn sum to at most counters * total_time) and
\* counters * total_time * utilization equals that sum; when total_time is 0
\* the utilization is 0.  Arithmetic is exact here; the code's is floating point.
C11_UtilizationWithinUnit ==
    pc = "done" =>
        LET u == result.utilization
            total == SumSeq(ServiceDurationsDrawn)
            cap == result.counters * result.total_time
        IN  /\ u[2] > 0
            /\ result.total_time > 0 =>
                  /\ 0 <= u[1]
                  /\ u[1] <= u[2]
                  /\ total <= cap
                  /\ cap * u[1] = total * u[2]
            /\ result.total_time = 0 => u[1] = 0

\* a run of several servers that kept them all busy to the end
C11_Witness ==
    /\ pc = "done"
    /\ result.counters >= 2
    /\ result.total_time > 0
    /\ result.utilization[1] = result.utilization[2]

\* C13: no state is shared between runs, so a Result depends only on the run's
\* own parameters and seed and not on the runs made before it in the process:
\* every call of simulate_queue starts from the seeded generator, none of whose
\* variates has been consumed.
C13_RunStartsFromSeededGenerator ==
    pc = "start" => draws = <<>>

\* C14: a customer that arrives while a server is free starts service at its
\* arrival time, so its wait is 0; in particular the first min(clients, counters)
\* customers of a run all have wait 0 (with clients = 1, the only one).
C14_NoWaitWhenServerFree ==
    /\ [](\A k \in 1..Len(waits) :
            (k <= clients /\ k <= counters)
              => (waits[k] = 0 /\ cust[k].service_start = cust[k].arrival))
    /\ [][ ( /\ pc = "loop"
             /\ free_servers # <<>>
             /\ client_id' = client_id + 1 )
           => ( /\ queue' = <<client_id'>>
                /\ free_servers' = free_servers
                /\ pc' = "assign" )
       ]_vars
    /\ [][ ( /\ pc = "assign"
             /\ event = "ARRIVAL"
             /\ free_servers # <<>>
             /\ queue # <<>> )
           => ( /\ queue = <<client_id>>
                /\ waits' = Append(waits, 0)
                /\ assign_log'[Len(assign_log')][1] = client_id
                /\ cust'[client_id].service_start = cust[client_id].arrival )
       ]_vars

\* a late customer found a server free again and did not wait, after an
\* earlier one had to
C14_Witness ==
    /\ Len(waits) >= 3
    /\ waits[1] = 0
    /\ waits[2] > 0
    /\ waits[3] = 0
    /\ cust[3].service_start = cust[3].arrival

\* the i-th smallest element of a sample, by counting
OrderStat(values, i) ==
    CHOOSE v \in Range(values) :
        /\ Cardinality({j \in 1..Len(values) : values[j] < v}) < i
        /\ Cardinality({j \in 1..Len(values) : values[j] <= v}) >= i

Reverse(xs) == [i \in 1..Len(xs) |-> xs[Len(xs) + 1 - i]]

\* C15: pct returns 0 for an empty sample and the only element of a one-element
\* sample, whatever p; otherwise, with S the sorted sample of length L and
\* k = (p/100)*(L-1), it returns S[floor(k)] + (S[ceil(k)] - S[floor(k)])*(k - floor(k));
\* pct([1,2,3,4], 50) = 2.5; the order of the input values does not matter.
\* (pct_out is in hundredths.)
C15_PctInterpolates ==
    pc = "pct_done" =>
        LET L == Len(pct_values)
            k100 == pct_p * (L - 1)
            fl == k100 \div 100
            ce == IF k100 % 100 = 0 THEN fl ELSE fl + 1
            Sfl == OrderStat(pct_values, fl + 1)
            Sce == OrderStat(pct_values, ce + 1)
        IN  /\ L = 0 => pct_out = 0
            /\ L = 1 => pct_out = 100 * pct_values[1]
            /\ L >= 1 => pct_out = 100 * Sfl + (Sce - Sfl) * (k100 - 100 * fl)
            /\ (pct_values = <<1, 2, 3, 4>> /\ pct_p = 50) => pct_out = 250
            /\ pct_out = Pct(Reverse(pct_values), pct_p)

\* the median of 4, 1, 3, 2 lies between two order statistics
C15_Witness ==
    /\ pc = "pct_done"
    /\ pct_values = <<4, 1, 3, 2>>
    /\ pct_p = 50
    /\ pct_out = 250

\* C16: visualization does not alter simulated state or timing: a call of
\* viz_print changes neither the queue, the free-server pool, the event horizon,
\* the counters nor the random stream, and the loop takes no step while it
\* runs, so a run with viz goes through the events of the run without it.
C16_VizLeavesRunAlone ==
    [][ viz_due => ( /\ UNCHANGED run_state
                     /\ ~viz_due'
                     /\ viz_out' \in {NoLine, VizLine} ) ]_vars

\* a line has been printed between a completion and the assignment after it
C16_Witness ==
    /\ viz
    /\ ~viz_due
    /\ pc = "assign"
    /\ event = "COMPLETION"
    /\ queue # <<>>
    /\ free_servers # <<>>
    /\ viz_out # NoLine
    /\ viz_out.now = t
    /\ viz_out.qlen = Len(queue)

\* the milestone lines and the wait lines of the file, in the order written
MilestoneLines == SelectSeq(report_lines, LAMBDA l : l[1] = "t")

WaitLines == SelectSeq(report_lines, LAMBDA l : l[1] = "w")

\* C17 (as stated): the detailed report holds, in order, one line for every
\* congestion milestone of the Result, and at most the first 50 wait samples.
C17_EveryMilestoneWritten ==
    pc = "report_done" =>
        /\ Len(MilestoneLines) = Len(report_res.queue_max_times)
        /\ \A i \in 1..Len(MilestoneLines) :
              MilestoneLines[i] = <<"t", report_res.queue_max_times[i][1],
                                    "q", report_res.queue_max_times[i][2]>>
        /\ Len(WaitLines) <= 50
        /\ \A i \in 1..Len(WaitLines) : WaitLines[i] = <<"w", report_res.waits[i]>>

\* C17 (amended): the detailed report holds, in order, one line for each of the
\* first 50 congestion milestones of the Result (all of them when there are at
\* most 50), and one line for each of the first 50 wait samples.
C17_FirstFiftyWritten ==
    pc = "report_done" =>
        LET nm == IF Len(report_res.queue_max_times) <= 50
                  THEN Len(report_res.queue_max_times) ELSE 50
            nw == IF Len(report_res.waits) <= 50 THEN Len(report_res.waits) ELSE 50
        IN  /\ Len(MilestoneLines) = nm
            /\ \A i \in 1..nm :
                  MilestoneLines[i] = <<"t", report_res.queue_max_times[i][1],
                                        "q", report_res.queue_max_times[i][2]>>
            /\ Len(WaitLines) = nw
            /\ \A i \in 1..nw : WaitLines[i] = <<"w", report_res.waits[i]>>
            /\ Len(report_lines) = nm + nw + 3

\* a report of a Result with more than 50 milestones and more than 50 waits
C17_Witness ==
    /\ pc = "report_done"
    /\ Len(report_res.queue_max_times) > 50
    /\ Len(report_res.waits) > 50
    /\ Len(MilestoneLines) = 50
    /\ Len(WaitLines) = 50

\* C18: for valid parameters the loop never fails: whenever the COMPLETION
\* branch is about to be taken busy_heap is non-empty, and whenever
\* served < clients with busy_heap empty, fewer than `clients` arrivals have
\* been generated and the next event is an ARRIVAL.
C18_CompletionHasPending ==
    /\ pc # "crashed"
    /\ err # "index out of range"
    /\ (pc = "loop" /\ served < clients /\ ~ArrivalIsNext) => busy_heap # <<>>
    /\ (pc = "loop" /\ served < clients /\ busy_heap = <<>>)
         => (client_id < clients /\ ArrivalIsNext)

\* the system has run empty between two customers
C18_Witness ==
    /\ pc = "loop"
    /\ served >= 1
    /\ served < clients
    /\ busy_heap = <<>>
    /\ client_id < clients

\* the latest service_end among the first n customers
RECURSIVE MaxServiceEnd(_)
MaxServiceEnd(n) ==
    IF n = 0 THEN 0
    ELSE IF cust[n].service_end >= MaxServiceEnd(n - 1)
         THEN cust[n].service_end ELSE MaxServiceEnd(n - 1)

\* C19: when simulate_queue returns, the queue and busy_heap are empty, all
\* `counters` servers are free, exactly `clients` customers were created and
\* `clients` waits recorded, and total_time is the time of the last completion
\* processed, the largest service_end of all customers.
C19_QuiescentAtReturn ==
    pc = "done" =>
        /\ queue = <<>>
        /\ busy_heap = <<>>
        /\ Len(free_servers) = counters
        /\ Range(free_servers) = 0..(counters - 1)
        /\ client_id = clients
        /\ Len(cust) = clients
        /\ Len(waits) = clients
        /\ result.waits = waits
        /\ result.served = clients
        /\ event = "COMPLETION"
        /\ result.total_time = t
        /\ result.total_time = MaxServiceEnd(clients)

\* a run returned whose last customer to arrive was not the last to finish
C19_Witness ==
    /\ pc = "done"
    /\ clients >= 2
    /\ counters >= 2
    /\ cust[clients].service_end < result.total_time

\* C20: at the end of every iteration of the main loop, after the assignment
\* step, no server is free while a customer is queued.
C20_WorkConserving ==
    pc \in {"loop", "done"} => (queue = <<>> \/ free_servers = <<>>)

\* after a completion and the assignment that followed, a customer still waits
C20_Witness ==
    /\ pc = "loop"
    /\ event = "COMPLETION"
    /\ queue # <<>>
    /\ free_servers = <<>>
    /\ Len(assign_log) >= 2

\* number of draws of one kind among the first n draws
DrawsOf(kind, n) == Cardinality({i \in 1..n : draws[i] = kind})

\* the draws made so far: the first is an inter-arrival draw, there is one
\* more inter-arrival draw than arrivals and one service draw per assignment,
\* and the k-th service draw comes after the (k+1)-th inter-arrival draw
DrawsInOrder ==
    /\ draws # <<>>
    /\ draws[1] = "arrival"
    /\ Range(draws) \subseteq {"arrival", "service"}
    /\ DrawsOf("arrival", Len(draws)) = client_id + 1
    /\ DrawsOf("service", Len(draws)) = Len(assign_log)
    /\ \A i \in 1..Len(draws) :
          draws[i] = "service" => DrawsOf("arrival", i) >= DrawsOf("service", i) + 1

\* C21: a run draws one inter-arrival time before the loop; every ARRIVAL
\* event draws the next inter-arrival time before the assignment step that
\* follows it draws any service time; every assignment draws one service
\* time; nothing else draws; a returned run of N clients has made N + 1
\* inter-arrival draws and N service draws, whatever the number of servers.
C21_DrawOrderAndAmount ==
    [][ /\ (pc' \in {"loop", "assign", "done"}) => DrawsInOrder'
        /\ (pc = "start" /\ pc' = "loop") => draws' = Append(draws, "arrival")
        /\ (client_id' # client_id /\ pc' # "raised") =>
              /\ draws' = Append(draws, "arrival")
              /\ pc' = "assign"
        /\ (assign_log' # assign_log) => draws' = Append(draws, "service")
        /\ (draws' # draws) =>
              \/ pc = "start"
              \/ client_id' = client_id + 1
              \/ Len(assign_log') = Len(assign_log) + 1
        /\ (pc' = "done") =>
              /\ DrawsOf("arrival", Len(draws')) = clients + 1
              /\ DrawsOf("service", Len(draws')) = clients
      ]_vars

\* a run returned in which two arrivals in a row found the server busy, so
\* that two inter-arrival draws were made with no service draw between them
C21_Witness ==
    /\ pc = "done"
    /\ clients = MaxClients
    /\ Len(draws) = 2 * clients + 1
    /\ \E i \in 2..(Len(draws) - 1) : draws[i] = "arrival" /\ draws[i + 1] = "arrival"

\* nothing that is scheduled lies in the past: the pending completions, and
\* the next arrival as long as one is still to be generated
NothingScheduledInPast ==
    /\ \A i \in 1..Len(busy_heap) : busy_heap[i][1] >= t
    /\ client_id < clients => next_arrival >= t

\* C22: simulated time never goes backwards: no step lowers t, every pending
\* completion time in busy_heap is >= t, and while fewer than `clients`
\* arrivals have been generated next_arrival is >= t.
C22_TimeMonotone ==
    [][ /\ t' >= t
        /\ (pc' \in {"loop", "assign", "done"}) => NothingScheduledInPast' ]_vars

\* the clock has advanced twice, last by a COMPLETION, with a later
\* completion pending and the next arrival scheduled after it
C22_Witness ==
    /\ pc = "assign"
    /\ event = "COMPLETION"
    /\ t >= 2
    /\ busy_heap # <<>>
    /\ busy_heap[1][1] > t
    /\ client_id < clients
    /\ next_arrival > t
    /\ \E k \in 1..Len(cust) : cust[k].arrival > 0 /\ cust[k].arrival < t

\* C23: customers are conserved: whenever an event or an assignment has been
\* completed, the arrivals generated are the customers in the queue, those
\* in service (the entries of busy_heap) and those served, and the waits
\* recorded are those of the customers in service and of those served.
C23_CustomersConserved ==
    Running =>
        /\ client_id = Len(queue) + Len(busy_heap) + served
        /\ Len(waits) = Len(busy_heap) + served
        /\ Len(cust) = client_id

\* at the top of the loop with a customer in each of the three places
C23_Witness ==
    /\ pc = "loop"
    /\ queue # <<>>
    /\ busy_heap # <<>>
    /\ served >= 1
    /\ client_id = Len(queue) + Len(busy_heap) + served

\* C24: the peak is measured right after the append of an ARRIVAL, before
\* any assignment: once a customer has arrived max_queue >= 1 and the first
\* milestone is (time of the first arrival, 1), also when a server was free;
\* the k-th milestone has length k, there are max_queue milestones, and the
\* queue is never longer than max_queue.
C24_PeakAfterAppend ==
    Running =>
        /\ Len(queue) <= max_queue
        /\ Len(queue_max_times) = max_queue
        /\ \A k \in 1..Len(queue_max_times) : queue_max_times[k][2] = k
        /\ client_id >= 1 =>
              /\ max_queue >= 1
              /\ queue_max_times[1] = <<cust[1].arrival, 1>>
        /\ pc = "done" =>
              /\ result.max_queue = max_queue
              /\ result.max_queue >= 1
              /\ result.queue_max_times = queue_max_times

\* a returned run whose first customer arrived after time 0 and was served
\* at once, and whose queue later reached length 2
C24_Witness ==
    /\ pc = "done"
    /\ cust[1].arrival > 0
    /\ waits[1] = 0
    /\ max_queue = 2
    /\ queue_max_times[1] = <<cust[1].arrival, 1>>
    /\ queue_max_times[2][2] = 2

\* the position in freed_log of the last COMPLETION that freed server s,
\* 0 when no COMPLETION has freed it yet
LastFreed(s) ==
    LET at == {i \in 1..Len(freed_log) : freed_log[i] = s}
    IN  IF at = {} THEN 0 ELSE CHOOSE i \in at : \A j \in at : j <= i

====
